---- MODULE Spec2Model ----
(***************************************************************************)
(* State-machine model of blcapi.client.BlivechatClient (src/blcapi/       *)
(* client.py), the dispatch of blcapi.handlers.BaseHandler (src/blcapi/    *)
(* handlers.py) and the stop callback of listener.LiveMsgHandler           *)
(* (src/listener.py).                                                      *)
(*                                                                         *)
(* One asyncio event loop runs everything, so every action below is one    *)
(* uninterrupted run of code between two suspension points (await) of a    *)
(* task, one timer callback, or one call of the public API.               *)
(***************************************************************************)
EXTENDS Integers, FiniteSets, Sequences, TLC

\* ------------------------------------------------------------------ bounds
\* Size of the pool of task identities (reused once the task has ended and
\* nothing refers to it): how many background tasks can exist at one time.
MaxTasks == 2
\* Cap on retry_count: a failing cycle is taken only while retry_count < MaxRetry.
MaxRetry == 7
\* Size of the pool of connection identities (reused once unreferenced).
MaxConn == 2
\* How many _send_heartbeat() tasks can be waiting to run at one time.
MaxPendingSends == 1
\* Cap on retry_count in CallerSpec and in DispatchSpec.
CallerMaxRetry == 1
\* Longest RoomKey string value drawn in RoomKeySpec.
MaxKeyLen == 4

\* --------------------------------------------------------------- constants
\* class Command(enum.IntEnum)
HEARTBEAT == 0
JOIN_ROOM == 1
ADD_TEXT == 2
ADD_GIFT == 3
ADD_MEMBER == 4
ADD_SUPER_CHAT == 5
DEL_SUPER_CHAT == 6
UPDATE_TRANSLATION == 7
FATAL_ERROR == 8
\* class RoomKeyType(enum.IntEnum)
ROOM_ID == 1
AUTH_CODE == 2
\* a command code outside the Command enum
UNKNOWN_CMD == 9
\* stands for an envelope that has no 'cmd' key (or is no JSON object)
NoCmd == -1

\* keys of BaseHandler._CMD_CALLBACK_DICT
CMD_CALLBACK_DICT ==
    {HEARTBEAT, ADD_TEXT, ADD_GIFT, ADD_MEMBER, ADD_SUPER_CHAT, DEL_SUPER_CHAT,
     UPDATE_TRANSLATION, FATAL_ERROR}

\* str(d) for the digits 0..9
DigitChars == <<"0", "1", "2", "3", "4", "5", "6", "7", "8", "9">>

TaskIds == 1..MaxTasks
ConnIds == 1..MaxConn

\* Handlers a caller may install: None, a BaseHandler whose on_client_stopped
\* is the inherited no-op, and listener.LiveMsgHandler.
Handlers == {"none", "base", "live"}

\* Inbound websocket messages, by what the code distinguishes in them.
Frames ==
    {[type |-> "BINARY", json |-> "ok", cmd |-> NoCmd, data |-> "ok"],
     [type |-> "TEXT", json |-> "bad", cmd |-> NoCmd, data |-> "ok"]}
    \cup [type : {"TEXT"}, json : {"ok"},
          cmd : {NoCmd, HEARTBEAT, ADD_TEXT, FATAL_ERROR, UNKNOWN_CMD},
          data : {"ok", "bad"}]

\* What an overridden _on_xxx method of the handler does when invoked.
MethodOutcomes == {"ok", "raise"}

VARIABLES
    handler,                 \* self._handler
    network_future,          \* self._network_future: 0 is None, else a task id
    websocket,               \* self._websocket: 0 is None, else a connection id
    heartbeat_timer_handle,  \* self._heartbeat_timer_handle: 0 is None, else the
                             \* pending timer, named by the connection it was
                             \* scheduled under
    timers,                  \* timers pending in the event loop (call_later)
    hb_sends,                \* number of _send_heartbeat() tasks created and not yet run
    conn,                    \* per connection id: "free", "open", "closing"
    logged_unknown_cmds,     \* handlers.logged_unknown_cmds
    pc,                      \* per task: where the coroutine is suspended ("none": no
                             \* such task, "done": ended but still referenced)
    must_cancel,             \* per task: cancel() requested and not yet delivered
    retry_count,             \* per task: local retry_count of _network_coroutine
    sleep_for,               \* per task: the delay of the pending asyncio.sleep
    tws,                     \* per task: local `websocket` of the async with
    exit_exc,                \* per task: the exception leaving the async with body
    reset_from,              \* per task: -1, or the retry_count that the first
                             \* message of this cycle's connection reset to 0
    exited,                  \* sys.exit(1) was called (LiveMsgHandler)
    own_session,             \* self._own_session
    session_closed,          \* self._session.closed
    room_key,                \* self._room_key: a RoomKey (type, value); the value
                             \* is IntValue(n) or StrValue(characters)
    rendered,                \* the last str(self._room_key) computed for a log
                             \* line: done is FALSE while there is none
    waiter,                  \* the caller coroutine suspended in join() or in
                             \* stop_and_close(): which of the two (op), the task
                             \* it awaits (on), and whether the awaited future
                             \* is still pending or how it completed (st)
    ev                       \* the last step taken and what it invoked

vars == <<handler, network_future, websocket, heartbeat_timer_handle, timers,
          hb_sends, conn, logged_unknown_cmds, pc, must_cancel,
          retry_count, sleep_for, tws, exit_exc, reset_from, exited,
          own_session, session_closed, room_key, rendered, waiter, ev>>

clientVars == <<network_future, websocket, heartbeat_timer_handle, timers,
                hb_sends, conn, pc, must_cancel, retry_count, sleep_for,
                tws, exit_exc, reset_from, exited, own_session,
                session_closed, room_key, rendered, waiter>>

\* No coroutine is suspended in join().
NoWaiter == [op |-> "-", on |-> 0, st |-> "-"]

\* ev: op names the step and t its task; for the receipt of a message, frame
\* is the message, cb the handler method the step invoked (its command code,
\* NoCmd for none), raised whether handler.handle raised and warned whether
\* the unknown-cmd warning was logged; stops lists the
\* errors the step passed to on_client_stopped, one per call.
NoFrame == [type |-> "-", json |-> "-", cmd |-> NoCmd, data |-> "-"]
Event(op, t) ==
    [op |-> op, t |-> t, frame |-> NoFrame, cb |-> NoCmd, raised |-> FALSE,
     warned |-> FALSE, stops |-> <<>>]
ExitEvent(t, calls) == [Event("exit", t) EXCEPT !.stops = calls]
RecvEvent(t, f, r) ==
    [Event("recv", t) EXCEPT !.frame = f, !.cb = r.cb, !.raised = r.raised,
                             !.warned = r.warned]

\* ----------------------------------------------------------- pure helpers

\* str(value) of an int (not negative): its decimal digits.
RECURSIVE int_str(_)
int_str(n) ==
    IF n < 10 THEN <<DigitChars[n + 1]>>
    ELSE int_str(n \div 10) \o <<DigitChars[(n % 10) + 1]>>

\* RoomKey.value is `int | str`.
IntValue(n) == [int |-> TRUE, n |-> n, s |-> <<>>]
StrValue(cs) == [int |-> FALSE, n |-> 0, s |-> cs]

\* str(self.value): a str is itself.
value_str(v) == IF v.int THEN int_str(v.n) ELSE v.s

\* res[-3:]
last3(res) == IF Len(res) <= 3 THEN res ELSE SubSeq(res, Len(res) - 2, Len(res))

\* RoomKey.__str__ without the masking
RoomKey_str_unmasked(k) == value_str(k.value)

\* RoomKey.__str__
RoomKey_str(k) ==
    LET res == value_str(k.value)
    IN IF k.type = AUTH_CODE THEN <<"*", "*", "*">> \o last3(res) ELSE res

\* is_running as it would be if it never saw the running task
is_running_never(nf) == FALSE

\* BlivechatClient.is_running
is_running(nf) == nf # 0

Min(a, b) == IF a < b THEN a ELSE b

\* _get_reconnect_interval without its cap
get_reconnect_interval_uncapped(k) == 1 + (k - 1) * 2

\* BlivechatClient._get_reconnect_interval
get_reconnect_interval(k) == Min(1 + (k - 1) * 2, 10)

\* the message loop without its `retry_count = 0`
retry_after_message_kept(k) == k

\* `retry_count = 0` after _on_ws_message(message) has returned
retry_after_message(k) == 0

\* _send_cmd_data without its check of the connection
send_cmd_data_unchecked(ws, cn) == FALSE

\* _send_cmd_data: `if self._websocket is None or self._websocket.closed:
\* raise ConnectionResetError`
send_cmd_data_raises(ws, cn) == ws = 0 \/ cn[ws] # "open"

\* the liveness test without its `.closed` half
ws_unusable_ignores_closed(ws, cn) == ws = 0

\* `self._websocket is None or self._websocket.closed`
ws_unusable(ws, cn) == ws = 0 \/ cn[ws] # "open"

\* message_cls.from_command(command['data']): HeartbeatMsg ignores the payload,
\* every other class indexes it and raises on a missing key or wrong arity.
from_command_ok(f) == f.cmd = HEARTBEAT \/ f.data = "ok"

\* BaseHandler.handle without `logged_unknown_cmds.add(cmd)`
BaseHandler_handle_no_add(f, outcome, logged) ==
    IF f.cmd = NoCmd
    THEN [cb |-> NoCmd, raised |-> TRUE, logged |-> logged, warned |-> FALSE]
    ELSE IF f.cmd \notin CMD_CALLBACK_DICT
    THEN [cb |-> NoCmd, raised |-> FALSE, logged |-> logged,
          warned |-> f.cmd \notin logged]
    ELSE IF ~(f.cmd = HEARTBEAT \/ f.data = "ok")
    THEN [cb |-> NoCmd, raised |-> TRUE, logged |-> logged, warned |-> FALSE]
    ELSE [cb |-> f.cmd, raised |-> outcome = "raise", logged |-> logged,
          warned |-> FALSE]

\* BaseHandler.handle: what it invokes, whether it raises, what it logs.
BaseHandler_handle(f, outcome, logged) ==
    IF f.cmd = NoCmd
    THEN [cb |-> NoCmd, raised |-> TRUE, logged |-> logged, warned |-> FALSE]
    ELSE IF f.cmd \notin CMD_CALLBACK_DICT
    THEN [cb |-> NoCmd, raised |-> FALSE, logged |-> logged \cup {f.cmd},
          warned |-> f.cmd \notin logged]
    ELSE IF ~from_command_ok(f)
    THEN [cb |-> NoCmd, raised |-> TRUE, logged |-> logged, warned |-> FALSE]
    ELSE [cb |-> f.cmd, raised |-> outcome = "raise", logged |-> logged,
          warned |-> FALSE]

\* _handle_command with the FATAL_ERROR check inside the try: a handler that
\* raises skips it
handle_command_fatal_in_try(h, f, outcome, logged) ==
    LET hr == IF h = "none"
              THEN [cb |-> NoCmd, raised |-> FALSE, logged |-> logged, warned |-> FALSE]
              ELSE BaseHandler_handle(f, outcome, logged)
        res == IF hr.raised THEN "ok"
               ELSE IF f.cmd = NoCmd THEN "malformed"
               ELSE IF f.cmd = FATAL_ERROR
                    THEN (IF f.data = "ok" THEN "fatal" ELSE "malformed")
                    ELSE "ok"
    IN [cb |-> hr.cb, raised |-> hr.raised, logged |-> hr.logged,
        warned |-> hr.warned, result |-> res]

\* _handle_command without its try/except: the handler's exception propagates
handle_command_no_except(h, f, outcome, logged) ==
    LET hr == IF h = "none"
              THEN [cb |-> NoCmd, raised |-> FALSE, logged |-> logged, warned |-> FALSE]
              ELSE BaseHandler_handle(f, outcome, logged)
        res == IF hr.raised \/ f.cmd = NoCmd THEN "malformed"
               ELSE IF f.cmd = FATAL_ERROR
                    THEN (IF f.data = "ok" THEN "fatal" ELSE "malformed")
                    ELSE "ok"
    IN [cb |-> hr.cb, raised |-> hr.raised, logged |-> hr.logged,
        warned |-> hr.warned, result |-> res]

\* BlivechatClient._handle_command: the handler's exception is swallowed, then
\* command['cmd'] is read and FatalError raised for FATAL_ERROR.
\* result: "ok", "fatal" (FatalError) or "malformed" (KeyError/TypeError).
handle_command(h, f, outcome, logged) ==
    LET hr == IF h = "none"
              THEN [cb |-> NoCmd, raised |-> FALSE, logged |-> logged, warned |-> FALSE]
              ELSE BaseHandler_handle(f, outcome, logged)
        res == IF f.cmd = NoCmd THEN "malformed"
               ELSE IF f.cmd = FATAL_ERROR
                    THEN (IF f.data = "ok" THEN "fatal" ELSE "malformed")
                    ELSE "ok"
    IN [cb |-> hr.cb, raised |-> hr.raised, logged |-> hr.logged,
        warned |-> hr.warned, result |-> res]

\* BlivechatClient._on_ws_message
\* result: "dropped" (not TEXT), "ok", "fatal", or "malformed" (json.loads or
\* _handle_command raised something else, which is logged and re-raised).
on_ws_message(h, f, outcome, logged) ==
    IF f.type # "TEXT"
    THEN [cb |-> NoCmd, raised |-> FALSE, logged |-> logged, warned |-> FALSE,
          result |-> "dropped"]
    ELSE IF f.json # "ok"
    THEN [cb |-> NoCmd, raised |-> FALSE, logged |-> logged, warned |-> FALSE,
          result |-> "malformed"]
    ELSE handle_command(h, f, outcome, logged)

\* close() closing the session whoever owns it
close_result_any_session(own, closed) == TRUE

\* BlivechatClient.close: self._session.closed afterwards
close_result(own, closed) == closed \/ own

\* BlivechatClient.join, by what `await asyncio.shield(self._network_future)`
\* finds: "noop" (not running: warning, return), "raise" (the future is
\* already cancelled: CancelledError at once), "wait" (suspend).
join_result(nf, pcs) ==
    IF ~is_running(nf) THEN "noop"
    ELSE IF pcs[nf] = "done" THEN "raise"
    ELSE "wait"

\* start() without its is_running check
start_result_unguarded(nf, fresh) == [nf |-> fresh, created |-> TRUE]

\* BlivechatClient.start as a function of _network_future and of the identity
\* `fresh` that asyncio.create_task would give a new task: the new
\* _network_future and whether a task was created.
start_result(nf, fresh) ==
    IF is_running(nf)
    THEN [nf |-> nf, created |-> FALSE]
    ELSE [nf |-> fresh, created |-> TRUE]

\* the wrapper without `self._network_future = None` in its finally clause
wrapper_finally_keeps_future(nf) == nf

\* `finally: self._network_future = None` of _network_coroutine_wrapper
wrapper_finally(nf) == 0

\* handler.on_client_stopped(client, exc), called while _network_future is nf.
\* HandlerInterface: no-op.  LiveMsgHandler: sys.exit(1) on FatalError, else
\* client.start().
on_client_stopped(h, exc, nf, fresh) ==
    IF h = "live"
    THEN IF exc = "fatal"
         THEN [exit |-> TRUE, st |-> [nf |-> nf, created |-> FALSE]]
         ELSE [exit |-> FALSE, st |-> start_result(nf, fresh)]
    ELSE [exit |-> FALSE, st |-> [nf |-> nf, created |-> FALSE]]

\* Smallest connection identity nothing refers to any more.
Referenced(c) ==
    \/ conn[c] # "free"
    \/ websocket = c
    \/ c \in timers
    \/ heartbeat_timer_handle = c
    \/ \E t \in TaskIds : tws[t] = c
FreshConn == CHOOSE c \in ConnIds : ~Referenced(c) /\ \A d \in ConnIds : d < c => Referenced(d)
HasFreshConn == \E c \in ConnIds : ~Referenced(c)

\* Smallest task identity not in use.
FreshTask == CHOOSE t \in TaskIds : pc[t] = "none" /\ \A u \in TaskIds : u < t => pc[u] # "none"
HasFreshTask == \E t \in TaskIds : pc[t] = "none"

LiveTasks == {t \in TaskIds : pc[t] \notin {"none", "done"}}

\* ------------------------------------------------------------------- Init
\* BlivechatClient.__init__(ws_url, room_key, session=session): "none" is the
\* default session=None, "given" a ClientSession of the caller.
init(session, key) ==
    /\ handler = "none"
    /\ room_key = key
    /\ rendered = [done |-> FALSE, text |-> <<>>]
    /\ network_future = 0
    /\ websocket = 0
    /\ heartbeat_timer_handle = 0
    /\ timers = {}
    /\ hb_sends = 0
    /\ conn = [c \in ConnIds |-> "free"]
    /\ logged_unknown_cmds = {}
    /\ pc = [t \in TaskIds |-> "none"]
    /\ must_cancel = [t \in TaskIds |-> FALSE]
    /\ retry_count = [t \in TaskIds |-> 0]
    /\ sleep_for = [t \in TaskIds |-> 0]
    /\ tws = [t \in TaskIds |-> 0]
    /\ exit_exc = [t \in TaskIds |-> "-"]
    /\ reset_from = [t \in TaskIds |-> -1]
    /\ exited = FALSE
    /\ own_session = (session = "none")
    /\ session_closed = FALSE
    /\ waiter = NoWaiter
    /\ ev = Event("init", 0)

\* The room of config.AppConfig: room_key_type ROOM_ID, room_key_value 92384.
ConfigRoomKey == [type |-> ROOM_ID, value |-> IntValue(92384)]

\* The client as listener.init() constructs it: no session is passed.
Init == init("none", ConfigRoomKey)

\* The client constructed either way.
CallerInit == \E session \in {"none", "given"} : init(session, ConfigRoomKey)


\* ------------------------------------------------------ action fragments

\* the finally clause without its call of _on_ws_close
Teardown_without_on_ws_close ==
    /\ websocket' = 0
    /\ UNCHANGED <<timers, heartbeat_timer_handle>>

\* `finally: self._websocket = None; await self._on_ws_close()`
\* (_on_ws_close cancels the timer the handle names and clears the handle)
Teardown ==
    /\ websocket' = 0
    /\ timers' = timers \ {heartbeat_timer_handle}
    /\ heartbeat_timer_handle' = 0

\* `retry_count += 1; await asyncio.sleep(self._get_reconnect_interval(retry_count))`
Backoff(t) ==
    /\ retry_count' = [retry_count EXCEPT ![t] = @ + 1]
    /\ sleep_for' = [sleep_for EXCEPT ![t] = get_reconnect_interval(retry_count[t] + 1)]
    /\ pc' = [pc EXCEPT ![t] = "sleeping"]
    /\ must_cancel' = [must_cancel EXCEPT ![t] = FALSE]
    /\ tws' = [tws EXCEPT ![t] = 0]
    /\ exit_exc' = [exit_exc EXCEPT ![t] = "-"]
    /\ UNCHANGED <<network_future, exited, reset_from, waiter>>

\* The coroutine's frame is gone: its locals no longer exist.
LocalsCleared(t) ==
    /\ must_cancel' = [must_cancel EXCEPT ![t] = FALSE]
    /\ retry_count' = [retry_count EXCEPT ![t] = 0]
    /\ sleep_for' = [sleep_for EXCEPT ![t] = 0]
    /\ tws' = [tws EXCEPT ![t] = 0]
    /\ exit_exc' = [exit_exc EXCEPT ![t] = "-"]
    /\ reset_from' = [reset_from EXCEPT ![t] = -1]

\* The future of task t completes, with a result ("returned") or cancelled:
\* a coroutine awaiting it through asyncio.shield becomes ready to resume.
FutureDone(t, how) ==
    waiter' = IF waiter.on = t THEN [waiter EXCEPT !.st = how, !.on = 0]
              ELSE waiter

\* _network_coroutine_wrapper once _network_coroutine() has raised `exc`
\* ("none" is CancelledError): `finally: self._network_future = None`, then
\* `self._handler.on_client_stopped(self, exc)` when a handler is installed.
\* The task ends in the same run of code, so all of it is one step.
network_coroutine_wrapper(t, exc) ==
    LET nf == wrapper_finally(network_future)
        r == IF handler = "none"
             THEN [exit |-> FALSE, st |-> [nf |-> nf, created |-> FALSE]]
             ELSE on_client_stopped(handler, exc, nf,
                                    IF HasFreshTask THEN FreshTask ELSE 0)
        ended == IF r.st.nf = t THEN "done" ELSE "none"
    IN /\ r.st.created => HasFreshTask
       /\ network_future' = r.st.nf
       /\ pc' = IF r.st.created
                THEN [pc EXCEPT ![t] = ended, ![r.st.nf] = "created"]
                ELSE [pc EXCEPT ![t] = ended]
       /\ ev' = ExitEvent(t, IF handler = "none" THEN <<>> ELSE <<exc>>)
       /\ exited' = r.exit
       /\ LocalsCleared(t)
       /\ FutureDone(t, "returned")

\* An exception leaves the body of `async with ... as websocket`: __aexit__
\* awaits websocket.close(), which sets websocket.closed and suspends until
\* the closing handshake is over.
BeginClose(t, exc) ==
    /\ conn' = [conn EXCEPT ![tws[t]] = "closing"]
    /\ exit_exc' = [exit_exc EXCEPT ![t] = exc]
    /\ pc' = [pc EXCEPT ![t] = "closing"]
    /\ must_cancel' = [must_cancel EXCEPT ![t] = FALSE]

\* ---------------------------------------------------------- public API
\* close() leaves the client unusable ("调用后本客户端将不可用"): no public
\* method is called after the session was closed.

\* BlivechatClient.set_handler
set_handler(h) ==
    /\ ~exited /\ ~session_closed
    /\ handler' = h
    /\ ev' = Event("set_handler", 0)
    /\ UNCHANGED <<clientVars, logged_unknown_cmds>>

\* BlivechatClient.start
start ==
    /\ ~exited /\ ~session_closed
    /\ LET r == start_result(network_future, IF HasFreshTask THEN FreshTask ELSE 0)
       IN /\ r.created => HasFreshTask
          /\ network_future' = r.nf
          /\ pc' = IF r.created THEN [pc EXCEPT ![r.nf] = "created"] ELSE pc
          /\ ev' = Event(IF r.created THEN "start" ELSE "start_noop", r.nf)
    /\ UNCHANGED <<room_key, rendered>>
    /\ UNCHANGED <<own_session, session_closed, waiter>>
    /\ UNCHANGED <<handler, websocket, heartbeat_timer_handle, timers, hb_sends,
                   conn, logged_unknown_cmds, must_cancel, retry_count, sleep_for,
                   tws, exit_exc, reset_from, exited>>

\* BlivechatClient.stop: Task.cancel() arms the cancellation of a task that is
\* not done and does nothing to one that is.
stop ==
    /\ ~exited /\ ~session_closed
    /\ IF ~is_running(network_future)
       THEN /\ ev' = Event("stop_noop", 0)
            /\ UNCHANGED must_cancel
       ELSE /\ ev' = Event("stop", network_future)
            /\ must_cancel' = IF pc[network_future] = "done" THEN must_cancel
                              ELSE [must_cancel EXCEPT ![network_future] = TRUE]
    /\ UNCHANGED <<room_key, rendered>>
    /\ UNCHANGED <<own_session, session_closed, waiter>>
    /\ UNCHANGED <<handler, network_future, websocket, heartbeat_timer_handle,
                   timers, hb_sends, conn, logged_unknown_cmds, pc,
                   retry_count, sleep_for, tws, exit_exc, reset_from,
                   exited>>

\* BlivechatClient.join, called by a coroutine.
join ==
    /\ ~exited /\ ~session_closed /\ waiter = NoWaiter
    /\ LET r == join_result(network_future, pc)
       IN /\ waiter' = IF r = "wait"
                       THEN [op |-> "join", on |-> network_future, st |-> "pending"]
                       ELSE waiter
          /\ ev' = Event("join_" \o r, network_future)
    /\ UNCHANGED <<handler, network_future, websocket, heartbeat_timer_handle,
                   timers, hb_sends, conn, logged_unknown_cmds, pc, must_cancel,
                   retry_count, sleep_for, tws, exit_exc, reset_from, exited,
                   room_key, rendered, own_session, session_closed>>

\* BlivechatClient.close
close ==
    /\ ~exited /\ ~session_closed /\ waiter = NoWaiter
    /\ session_closed' = close_result(own_session, session_closed)
    /\ ev' = Event("close", 0)
    /\ UNCHANGED <<handler, network_future, websocket, heartbeat_timer_handle,
                   timers, hb_sends, conn, logged_unknown_cmds, pc, must_cancel,
                   retry_count, sleep_for, tws, exit_exc, reset_from, exited,
                   room_key, rendered, own_session, waiter>>

\* BlivechatClient.stop_and_close, called by a coroutine: up to its first
\* suspension in join(), or to its end when join() is not reached or returns
\* or raises at once.
stop_and_close ==
    /\ ~exited /\ ~session_closed /\ waiter = NoWaiter
    /\ IF ~is_running(network_future)
       THEN /\ session_closed' = close_result(own_session, session_closed)
            /\ ev' = Event("stop_and_close_returned", 0)
            /\ UNCHANGED <<must_cancel, waiter>>
       ELSE /\ must_cancel' = IF pc[network_future] = "done" THEN must_cancel
                              ELSE [must_cancel EXCEPT ![network_future] = TRUE]
            /\ LET r == join_result(network_future, pc)
               IN /\ waiter' = IF r = "wait"
                               THEN [op |-> "stop_and_close", on |-> network_future,
                                     st |-> "pending"]
                               ELSE waiter
                  /\ ev' = Event("stop_and_close_" \o r, network_future)
            /\ UNCHANGED session_closed
    /\ UNCHANGED <<handler, network_future, websocket, heartbeat_timer_handle,
                   timers, hb_sends, conn, logged_unknown_cmds, pc,
                   retry_count, sleep_for, tws, exit_exc, reset_from, exited,
                   room_key, rendered, own_session>>

\* The coroutine suspended in join() resumes once the awaited future is done:
\* join() returns, or raises CancelledError when the task ended cancelled;
\* stop_and_close() goes on to close() in the first case only.
join_resume ==
    /\ ~exited /\ waiter.st \in {"returned", "cancelled"}
    /\ waiter' = NoWaiter
    /\ session_closed' = IF waiter.op = "stop_and_close" /\ waiter.st = "returned"
                         THEN close_result(own_session, session_closed)
                         ELSE session_closed
    /\ ev' = Event(waiter.op \o "_" \o waiter.st, 0)
    /\ UNCHANGED <<handler, network_future, websocket, heartbeat_timer_handle,
                   timers, hb_sends, conn, logged_unknown_cmds, pc, must_cancel,
                   retry_count, sleep_for, tws, exit_exc, reset_from, exited,
                   room_key, rendered, own_session>>

\* --------------------------------------------------- the background task

\* First step of the task: _network_coroutine_wrapper enters its try,
\* _network_coroutine sets retry_count = 0 and awaits ws_connect().
\* The event loop runs its ready callbacks in the order they were scheduled:
\* a _send_heartbeat() task created earlier has run by then.
TaskStart(t) ==
    /\ ~exited /\ pc[t] = "created" /\ ~must_cancel[t]
    /\ hb_sends = 0
    /\ pc' = [pc EXCEPT ![t] = "connecting"]
    /\ retry_count' = [retry_count EXCEPT ![t] = 0]
    /\ ev' = Event("task_start", t)
    /\ UNCHANGED <<room_key, rendered>>
    /\ UNCHANGED <<own_session, session_closed, waiter>>
    /\ UNCHANGED <<handler, network_future, websocket, heartbeat_timer_handle,
                   timers, hb_sends, conn, logged_unknown_cmds, must_cancel,
                   sleep_for, tws, exit_exc, reset_from, exited>>

\* ws_connect() returns: `self._websocket = websocket`, then _on_ws_connect
\* awaits the join-room send.
ConnectOk(t) ==
    /\ ~exited /\ pc[t] = "connecting" /\ ~must_cancel[t]
    /\ ~session_closed
    /\ HasFreshConn
    /\ LET c == FreshConn
       IN /\ conn' = [conn EXCEPT ![c] = "open"]
          /\ tws' = [tws EXCEPT ![t] = c]
          /\ websocket' = c
    /\ reset_from' = [reset_from EXCEPT ![t] = -1]
    /\ pc' = [pc EXCEPT ![t] = "joining"]
    /\ ev' = Event("connected", t)
    /\ UNCHANGED <<room_key, rendered>>
    /\ UNCHANGED <<own_session, session_closed, waiter>>
    /\ UNCHANGED <<handler, network_future, heartbeat_timer_handle, timers,
                   hb_sends, logged_unknown_cmds, must_cancel,
                   retry_count, sleep_for, exit_exc, exited>>

\* ws_connect() raises.  "conn": aiohttp.ClientConnectionError or
\* asyncio.TimeoutError, swallowed by the except clause.  "other": any other
\* exception (a refused handshake, a closed session), which no except clause
\* of _network_coroutine swallows.  The finally clause runs either way.
\* On a closed session ws_connect() raises RuntimeError before any I/O.
ConnectFail(t, kind) ==
    /\ ~exited /\ pc[t] = "connecting" /\ ~must_cancel[t]
    /\ Teardown
    /\ IF kind = "conn"
       THEN /\ ~session_closed
            /\ retry_count[t] < MaxRetry
            /\ Backoff(t)
            /\ ev' = Event("backoff", t)
       ELSE /\ network_coroutine_wrapper(t, kind)
    /\ UNCHANGED <<room_key, rendered>>
    /\ UNCHANGED <<own_session, session_closed>>
    /\ UNCHANGED <<handler, hb_sends, conn, logged_unknown_cmds>>

\* The join-room send returns: _on_ws_connect schedules the heartbeat timer
\* and the task awaits the first message.
JoinOk(t) ==
    /\ ~exited /\ pc[t] = "joining" /\ ~must_cancel[t]
    /\ heartbeat_timer_handle' = tws[t]
    /\ timers' = timers \cup {tws[t]}
    /\ pc' = [pc EXCEPT ![t] = "receiving"]
    /\ ev' = Event("joined", t)
    /\ UNCHANGED <<room_key, rendered>>
    /\ UNCHANGED <<own_session, session_closed, waiter>>
    /\ UNCHANGED <<handler, network_future, websocket, hb_sends, conn,
                   logged_unknown_cmds, must_cancel, retry_count,
                   sleep_for, tws, exit_exc, reset_from, exited>>

\* The join-room send raises: aiohttp.ClientConnectionError ("conn") or the
\* builtin ConnectionResetError of _send_cmd_data and of the transport
\* ("other": it is no aiohttp.ClientConnectionError).
JoinFail(t, kind) ==
    /\ ~exited /\ pc[t] = "joining" /\ ~must_cancel[t]
    /\ kind = "conn" => retry_count[t] < MaxRetry
    /\ BeginClose(t, kind)
    /\ ev' = Event("join_failed", t)
    /\ UNCHANGED <<room_key, rendered>>
    /\ UNCHANGED <<own_session, session_closed, waiter>>
    /\ UNCHANGED <<handler, network_future, websocket, heartbeat_timer_handle,
                   timers, hb_sends, logged_unknown_cmds, retry_count,
                   sleep_for, tws, reset_from, exited>>

\* `async for message in websocket`: one message arrives and
\* _on_ws_message(message) runs; when it returns, `retry_count = 0`.
Recv(t, f, outcome) ==
    /\ ~exited /\ pc[t] = "receiving" /\ ~must_cancel[t]
    /\ LET r == on_ws_message(handler, f, outcome, logged_unknown_cmds)
       IN /\ logged_unknown_cmds' = r.logged
          /\ ev' = RecvEvent(t, f, r)
          /\ IF r.result \in {"ok", "dropped"}
             THEN /\ retry_count' = [retry_count EXCEPT ![t] = retry_after_message(@)]
                  /\ reset_from' = [reset_from EXCEPT
                                      ![t] = IF @ = -1 THEN retry_count[t] ELSE @]
                  /\ UNCHANGED <<conn, exit_exc, pc, must_cancel>>
             ELSE /\ BeginClose(t, r.result)
                  /\ UNCHANGED <<retry_count, reset_from>>
    /\ UNCHANGED <<room_key, rendered>>
    /\ UNCHANGED <<own_session, session_closed, waiter>>
    /\ UNCHANGED <<handler, network_future, websocket, heartbeat_timer_handle,
                   timers, hb_sends, sleep_for, tws, exited>>

\* The peer closes the connection: receive() answers the closing handshake
\* (websocket.closed becomes true) and the message loop ends.
RecvClose(t) ==
    /\ ~exited /\ pc[t] = "receiving" /\ ~must_cancel[t]
    /\ retry_count[t] < MaxRetry
    /\ BeginClose(t, "normal")
    /\ ev' = Event("peer_closed", t)
    /\ UNCHANGED <<room_key, rendered>>
    /\ UNCHANGED <<own_session, session_closed, waiter>>
    /\ UNCHANGED <<handler, network_future, websocket, heartbeat_timer_handle,
                   timers, hb_sends, logged_unknown_cmds, retry_count,
                   sleep_for, tws, reset_from, exited>>

\* receive() raises asyncio.TimeoutError (receive_timeout) or
\* aiohttp.ClientConnectionError.
RecvError(t) ==
    /\ ~exited /\ pc[t] = "receiving" /\ ~must_cancel[t]
    /\ retry_count[t] < MaxRetry
    /\ BeginClose(t, "conn")
    /\ ev' = Event("recv_error", t)
    /\ UNCHANGED <<room_key, rendered>>
    /\ UNCHANGED <<own_session, session_closed, waiter>>
    /\ UNCHANGED <<handler, network_future, websocket, heartbeat_timer_handle,
                   timers, hb_sends, logged_unknown_cmds, retry_count,
                   sleep_for, tws, reset_from, exited>>

\* websocket.close() returns: the except clauses swallow "normal"/"conn" and
\* let everything else through; the finally clause runs; then either the
\* backoff sleep or the end of the task.
CloseDone(t) ==
    /\ ~exited /\ pc[t] = "closing" /\ ~must_cancel[t]
    /\ conn' = [conn EXCEPT ![tws[t]] = "free"]
    /\ Teardown
    /\ IF exit_exc[t] \in {"normal", "conn"}
       THEN /\ Backoff(t)
            /\ ev' = Event("backoff", t)
       ELSE /\ network_coroutine_wrapper(t, IF exit_exc[t] = "cancel" THEN "none"
                                            ELSE exit_exc[t])
    /\ UNCHANGED <<room_key, rendered>>
    /\ UNCHANGED <<own_session, session_closed>>
    /\ UNCHANGED <<handler, hb_sends, logged_unknown_cmds>>

\* asyncio.sleep() returns: next iteration of `while True`.  The sleep lasts
\* a second at least and a _send_heartbeat() task runs on the loop's next
\* iteration, so none created before the sleep is still waiting.
Wake(t) ==
    /\ ~exited /\ pc[t] = "sleeping" /\ ~must_cancel[t]
    /\ hb_sends = 0
    /\ pc' = [pc EXCEPT ![t] = "connecting"]
    /\ sleep_for' = [sleep_for EXCEPT ![t] = 0]
    /\ reset_from' = [reset_from EXCEPT ![t] = -1]
    /\ ev' = Event("wake", t)
    /\ UNCHANGED <<room_key, rendered>>
    /\ UNCHANGED <<own_session, session_closed, waiter>>
    /\ UNCHANGED <<handler, network_future, websocket, heartbeat_timer_handle,
                   timers, hb_sends, conn, logged_unknown_cmds, must_cancel,
                   retry_count, tws, exit_exc, exited>>

\* The armed cancellation is delivered at the task's next step: CancelledError
\* is thrown into the coroutine where it is suspended.
\*  - not yet started: the coroutine body never runs, so neither the try nor
\*    the finally of _network_coroutine_wrapper does; the task ends cancelled.
\*  - in ws_connect() or in asyncio.sleep(): finally clause (where inside the
\*    try), then the wrapper's `except asyncio.CancelledError`.
\*  - inside the async with body: __aexit__ awaits websocket.close().
\*  - inside websocket.close(): the close is abandoned, CancelledError replaces
\*    the exception that was leaving the body.
Cancelled(t) ==
    /\ ~exited /\ must_cancel[t]
    /\ pc[t] \in {"created", "connecting", "joining", "receiving", "closing", "sleeping"}
    /\ CASE pc[t] = "created" ->
              /\ pc' = [pc EXCEPT ![t] = IF network_future = t THEN "done" ELSE "none"]
              /\ must_cancel' = [must_cancel EXCEPT ![t] = FALSE]
              /\ ev' = Event("cancelled_unstarted", t)
              /\ FutureDone(t, "cancelled")
              /\ UNCHANGED <<network_future, websocket, heartbeat_timer_handle,
                             timers, conn, retry_count, sleep_for, tws,
                             exit_exc, reset_from, exited>>
         [] pc[t] = "connecting" ->
              /\ Teardown
              /\ network_coroutine_wrapper(t, "none")
              /\ UNCHANGED conn
         [] pc[t] = "sleeping" ->
              /\ network_coroutine_wrapper(t, "none")
              /\ UNCHANGED <<websocket, heartbeat_timer_handle, timers, conn>>
         [] pc[t] \in {"joining", "receiving"} ->
              /\ BeginClose(t, "cancel")
              /\ ev' = Event("cancelled", t)
              /\ UNCHANGED waiter
              /\ UNCHANGED <<network_future, websocket, heartbeat_timer_handle,
                             timers, retry_count, sleep_for, tws,
                             reset_from, exited>>
         [] pc[t] = "closing" ->
              /\ conn' = [conn EXCEPT ![tws[t]] = "free"]
              /\ Teardown
              /\ network_coroutine_wrapper(t, "none")
    /\ UNCHANGED <<room_key, rendered>>
    /\ UNCHANGED <<own_session, session_closed>>
    /\ UNCHANGED <<handler, hb_sends, logged_unknown_cmds>>

\* ------------------------------------------------------------ heartbeat

\* A pending timer fires: BlivechatClient._on_send_heartbeat.
\* c names the timer that fires.
on_send_heartbeat(c) ==
    /\ ~exited /\ c \in timers
    /\ IF ws_unusable(websocket, conn)
       THEN /\ heartbeat_timer_handle' = 0
            /\ timers' = timers \ {c}
            /\ ev' = Event("timer_lapsed", 0)
            /\ UNCHANGED hb_sends
       ELSE /\ hb_sends < MaxPendingSends
            /\ heartbeat_timer_handle' = websocket
            /\ timers' = (timers \ {c}) \cup {websocket}
            /\ hb_sends' = hb_sends + 1
            /\ ev' = Event("timer_fired", 0)
    /\ UNCHANGED <<room_key, rendered>>
    /\ UNCHANGED <<own_session, session_closed, waiter>>
    /\ UNCHANGED <<handler, network_future, websocket, conn, logged_unknown_cmds,
                   pc, must_cancel, retry_count, sleep_for, tws, exit_exc,
                   reset_from, exited>>

\* A _send_heartbeat() task runs: _send_cmd_data raises ConnectionResetError
\* when the connection is None or closed, else send_json succeeds or raises;
\* every exception is caught and logged.
send_heartbeat(result) ==
    /\ ~exited /\ hb_sends > 0
    /\ hb_sends' = hb_sends - 1
    /\ ev' = IF send_cmd_data_raises(websocket, conn)
             THEN Event("hb_refused", 0)
             ELSE Event("hb_" \o result, websocket)
    /\ UNCHANGED <<room_key, rendered>>
    /\ UNCHANGED <<own_session, session_closed, waiter>>
    /\ UNCHANGED <<handler, network_future, websocket, heartbeat_timer_handle,
                   timers, conn, logged_unknown_cmds, pc, must_cancel,
                   retry_count, sleep_for, tws, exit_exc, reset_from,
                   exited>>

\* ------------------------------------------------------------------ Next
Next ==
    \/ \E h \in Handlers : set_handler(h)
    \/ start
    \/ stop
    \/ \E t \in TaskIds : TaskStart(t)
    \/ \E t \in TaskIds : ConnectOk(t)
    \/ \E t \in TaskIds, kind \in {"conn", "other"} : ConnectFail(t, kind)
    \/ \E t \in TaskIds : JoinOk(t)
    \/ \E t \in TaskIds, kind \in {"conn", "other"} : JoinFail(t, kind)
    \/ \E t \in TaskIds, f \in Frames, outcome \in MethodOutcomes : Recv(t, f, outcome)
    \/ \E t \in TaskIds : RecvClose(t)
    \/ \E t \in TaskIds : RecvError(t)
    \/ \E t \in TaskIds : CloseDone(t)
    \/ \E t \in TaskIds : Wake(t)
    \/ \E t \in TaskIds : Cancelled(t)
    \/ \E c \in ConnIds : on_send_heartbeat(c)
    \/ \E result \in {"sent", "failed"} : send_heartbeat(result)

Spec == Init /\ [][Next]_vars

\* The client driven by a caller that also uses join(), close() and
\* stop_and_close(), against a server that sends a heartbeat, a fatal error
\* or a binary frame, with at most CallerMaxRetry consecutive failures.
CallerFrames ==
    {f \in Frames : \/ f.type = "BINARY"
                    \/ f.json = "ok" /\ f.data = "ok"
                         /\ f.cmd \in {HEARTBEAT, FATAL_ERROR}}

CallerNext ==
    \/ \E h \in Handlers : set_handler(h)
    \/ start
    \/ stop
    \/ join
    \/ close
    \/ stop_and_close
    \/ join_resume
    \/ \E t \in TaskIds : TaskStart(t)
    \/ \E t \in TaskIds : ConnectOk(t)
    \/ \E t \in TaskIds, kind \in {"conn", "other"} :
         (kind = "conn" => retry_count[t] < CallerMaxRetry) /\ ConnectFail(t, kind)
    \/ \E t \in TaskIds : JoinOk(t)
    \/ \E t \in TaskIds, kind \in {"conn", "other"} :
         (kind = "conn" => retry_count[t] < CallerMaxRetry) /\ JoinFail(t, kind)
    \/ \E t \in TaskIds, f \in CallerFrames : Recv(t, f, "ok")
    \/ \E t \in TaskIds : retry_count[t] < CallerMaxRetry /\ RecvClose(t)
    \/ \E t \in TaskIds : retry_count[t] < CallerMaxRetry /\ RecvError(t)
    \/ \E t \in TaskIds : CloseDone(t)
    \/ \E t \in TaskIds : Wake(t)
    \/ \E t \in TaskIds : Cancelled(t)
    \/ \E c \in ConnIds : on_send_heartbeat(c)
    \/ \E result \in {"sent", "failed"} : send_heartbeat(result)

CallerSpec == CallerInit /\ [][CallerNext]_vars

\* The event loop runs every callback that is ready: a cancellation that
\* was requested is delivered at the task's next step, websocket.close()
\* returns (the closing handshake has a timeout), and a coroutine whose
\* awaited future is done resumes.
FairCallerSpec ==
    /\ CallerSpec
    /\ WF_vars(\E t \in TaskIds : Cancelled(t))
    /\ WF_vars(\E t \in TaskIds : CloseDone(t))
    /\ WF_vars(join_resume)

\* The client against a server that sends commands outside the dispatch
\* table (JOIN_ROOM has no entry in it either) besides a known one, with at
\* most CallerMaxRetry consecutive failures.
DispatchFrames ==
    [type : {"TEXT"}, json : {"ok"}, cmd : {JOIN_ROOM, UNKNOWN_CMD, ADD_TEXT},
     data : {"ok"}]

DispatchNext ==
    \/ \E h \in Handlers : set_handler(h)
    \/ start
    \/ stop
    \/ \E t \in TaskIds : TaskStart(t)
    \/ \E t \in TaskIds : ConnectOk(t)
    \/ \E t \in TaskIds, kind \in {"conn", "other"} :
         (kind = "conn" => retry_count[t] < CallerMaxRetry) /\ ConnectFail(t, kind)
    \/ \E t \in TaskIds : JoinOk(t)
    \/ \E t \in TaskIds, kind \in {"conn", "other"} :
         (kind = "conn" => retry_count[t] < CallerMaxRetry) /\ JoinFail(t, kind)
    \/ \E t \in TaskIds, f \in DispatchFrames, outcome \in MethodOutcomes :
         Recv(t, f, outcome)
    \/ \E t \in TaskIds : retry_count[t] < CallerMaxRetry /\ RecvClose(t)
    \/ \E t \in TaskIds : retry_count[t] < CallerMaxRetry /\ RecvError(t)
    \/ \E t \in TaskIds : CloseDone(t)
    \/ \E t \in TaskIds : Wake(t)
    \/ \E t \in TaskIds : Cancelled(t)
    \/ \E c \in ConnIds : on_send_heartbeat(c)
    \/ \E result \in {"sent", "failed"} : send_heartbeat(result)

DispatchSpec == Init /\ [][DispatchNext]_vars

\* RoomKey values: ints, strings of up to MaxKeyLen characters, and the
\* auth code "abcdef123".
KeyChars == {"a", "b", "1"}
KeyStrings == UNION {[1..n -> KeyChars] : n \in 0..MaxKeyLen}
RoomKeys ==
    [type : {ROOM_ID, AUTH_CODE},
     value : {IntValue(n) : n \in {0, 7, 42, 123, 1234, 92384}}
             \cup {StrValue(cs) : cs \in KeyStrings}
             \cup {StrValue(<<"a", "b", "c", "d", "e", "f", "1", "2", "3">>)}]

\* A client constructed for any of these rooms.
RoomKeyInit == \E k \in RoomKeys : init("none", k)

\* A log call formats its 'room=%s' argument: str(self._room_key).
log_room_key ==
    /\ rendered' = [done |-> TRUE, text |-> RoomKey_str(room_key)]
    /\ ev' = Event("log_room_key", 0)
    /\ UNCHANGED <<handler, network_future, websocket, heartbeat_timer_handle,
                   timers, hb_sends, conn, logged_unknown_cmds, pc, must_cancel,
                   retry_count, sleep_for, tws, exit_exc, reset_from, exited,
                   own_session, session_closed, room_key, waiter>>

RoomKeyNext == log_room_key

RoomKeySpec == RoomKeyInit /\ [][RoomKeyNext]_vars

TypeOK ==
    /\ handler \in Handlers
    /\ network_future \in 0..MaxTasks
    /\ websocket \in 0..MaxConn
    /\ heartbeat_timer_handle \in 0..MaxConn
    /\ timers \subseteq ConnIds
    /\ hb_sends \in 0..MaxPendingSends
    /\ \A t \in TaskIds : retry_count[t] \in 0..MaxRetry
    /\ own_session \in BOOLEAN
    /\ session_closed \in BOOLEAN
    /\ waiter.op \in {"-", "join", "stop_and_close"}
    /\ waiter.on \in 0..MaxTasks
    /\ waiter.st \in {"-", "pending", "returned", "cancelled"}

\* ----------------------------------------------------------------- claims

\* Task t ends in this step.
TaskEnds(t) == pc[t] \notin {"none", "done"} /\ pc'[t] \in {"none", "done"}

\* C1: start() called while the client is running leaves the background task
\* in place and creates no second task, and stop() called while the client is
\* not running changes no state and cancels nothing, each time it is called.
C1_StartStopNoop ==
    [][/\ (ev'.op \in {"start", "start_noop"} /\ network_future # 0)
            => /\ ev'.op = "start_noop"
               /\ UNCHANGED <<handler, logged_unknown_cmds, clientVars>>
       /\ (ev'.op \in {"stop", "stop_noop"} /\ network_future = 0)
            => /\ ev'.op = "stop_noop"
               /\ UNCHANGED <<handler, logged_unknown_cmds, clientVars>>]_vars

\* start() was refused while the task was receiving.
C1_Witness ==
    /\ ev.op = "start_noop"
    /\ network_future # 0
    /\ pc[network_future] = "receiving"

\* C2: is_running is true exactly when a background task exists that has not
\* yet fully terminated.
C2_RunningIffTaskAlive == is_running(network_future) <=> LiveTasks # {}

\* The error a task that ends in this step ends with ("none": cancelled).
EndsWith(t) ==
    IF must_cancel[t] \/ exit_exc[t] = "cancel" THEN "none"
    ELSE IF exit_exc[t] = "-" THEN "other"
    ELSE exit_exc[t]

\* C3: with a handler installed, the step in which a background task ends
\* invokes on_client_stopped exactly once, with no error after a cancellation
\* and with the terminating error otherwise, and no other step invokes it.
C3_StoppedOncePerRun ==
    [][/\ \A t \in TaskIds :
            (TaskEnds(t) /\ handler # "none") => ev'.stops = <<EndsWith(t)>>
       /\ ev'.stops # <<>> => \E t \in TaskIds : TaskEnds(t)]_vars

\* A well-formed FATAL_ERROR message.
FatalFrame(f) ==
    f.type = "TEXT" /\ f.json = "ok" /\ f.cmd = FATAL_ERROR /\ f.data = "ok"

\* The receipt of a FATAL_ERROR message invokes the handler's fatal-error
\* callback once and leaves the message loop with FatalError, whether or not
\* the callback raised.
FatalFrameRaises(t) ==
    (ev'.op = "recv" /\ ev'.t = t /\ pc[t] = "receiving" /\ FatalFrame(ev'.frame))
        => /\ handler # "none" => ev'.cb = FATAL_ERROR
           /\ pc'[t] = "closing"
           /\ exit_exc'[t] = "fatal"

\* C4 as stated: after a FATAL_ERROR message the task ends without backoff or
\* reconnect, teardown has run, and on_client_stopped gets the fatal error.
C4_FatalStopsWithFatal ==
    [][\A t \in TaskIds :
         /\ FatalFrameRaises(t)
         /\ (pc[t] = "closing" /\ exit_exc[t] = "fatal" /\ pc'[t] # "closing")
              => /\ TaskEnds(t)
                 /\ websocket' = 0 /\ heartbeat_timer_handle' = 0
                 /\ handler # "none" => ev'.stops = <<"fatal">>]_vars

\* C4 amended: as C4, but when stop() is called before the connection has
\* finished closing, on_client_stopped gets no error instead of the fatal one.
C4_FatalStopsUnlessCancelled ==
    [][\A t \in TaskIds :
         /\ FatalFrameRaises(t)
         /\ (pc[t] = "closing" /\ exit_exc[t] = "fatal" /\ pc'[t] # "closing")
              => /\ TaskEnds(t)
                 /\ websocket' = 0 /\ heartbeat_timer_handle' = 0
                 /\ handler # "none"
                      => ev'.stops = IF must_cancel[t] THEN <<"none">>
                                     ELSE <<"fatal">>]_vars

\* The task has ended after a FATAL_ERROR message and the handler was told so.
C4_Witness ==
    /\ ev.op = "exit"
    /\ ev.stops = <<"fatal">>
    /\ network_future = 0
    /\ websocket = 0

\* C5: a background task ends only by a cancellation (stop()) or by a
\* FATAL_ERROR message.
C5_EndsOnlyByCancelOrFatal ==
    [][\A t \in TaskIds :
         TaskEnds(t) => (must_cancel[t] \/ exit_exc[t] \in {"cancel", "fatal"})]_vars

\* The delays the specification lists: 1, 3, 5, 7, 9, 10, 10, ...
ExpectedDelay(k) == IF k <= 5 THEN <<1, 3, 5, 7, 9>>[k] ELSE 10

\* C6: the delay before the k-th consecutive reconnect is 1, 3, 5, 7, 9, 10,
\* 10, ..., never below 1 nor above 10, and retry_count grows by exactly 1 per
\* failed cycle.
C6_BackoffSequence ==
    /\ [](\A t \in TaskIds :
            pc[t] = "sleeping"
                => /\ retry_count[t] >= 1
                   /\ sleep_for[t] = ExpectedDelay(retry_count[t])
                   /\ sleep_for[t] >= 1 /\ sleep_for[t] <= 10)
    /\ [][\A t \in TaskIds :
            (pc[t] # "sleeping" /\ pc'[t] = "sleeping")
                => retry_count'[t] = retry_count[t] + 1]_vars

\* The seventh consecutive failure: the delay has stayed at the cap.
C6_Witness ==
    \E t \in TaskIds :
        pc[t] = "sleeping" /\ retry_count[t] = 7 /\ sleep_for[t] = 10

\* C7: a message handled without error sets retry_count to 0, so the failed
\* cycle that follows a connection on which a message was handled has
\* retry_count 1 and a backoff of 1, whatever retry_count was before.
C7_MessageResetsRetry ==
    /\ [][\A t \in TaskIds :
            (ev'.op = "recv" /\ ev'.t = t /\ pc[t] = "receiving"
                /\ pc'[t] = "receiving")
                => retry_count'[t] = 0]_vars
    /\ [](\A t \in TaskIds :
            (pc[t] = "sleeping" /\ reset_from[t] # -1)
                => (retry_count[t] = 1 /\ sleep_for[t] = 1))

\* A connection made after three failures yielded a message and then failed.
C7_Witness ==
    \E t \in TaskIds :
        pc[t] = "sleeping" /\ reset_from[t] = 3 /\ retry_count[t] = 1

\* C8: when the handler raises on a message that is not FATAL_ERROR, the task
\* keeps receiving on the same connection, the heartbeat timer stays
\* scheduled and nothing is torn down.
C8_HandlerRaiseContained ==
    [][\A t \in TaskIds :
         (ev'.op = "recv" /\ ev'.t = t /\ pc[t] = "receiving" /\ ev'.raised
             /\ ev'.frame.cmd \notin {NoCmd, FATAL_ERROR})
             => /\ pc'[t] = "receiving"
                /\ ~must_cancel'[t]
                /\ UNCHANGED <<network_future, websocket, heartbeat_timer_handle,
                               timers, conn, tws, exit_exc, exited>>]_vars

\* The handler's method raised on an ADD_TEXT message; the connection is open,
\* the timer pending and the task receiving.
C8_Witness ==
    /\ ev.op = "recv" /\ ev.raised /\ ev.cb = ADD_TEXT
    /\ pc[ev.t] = "receiving"
    /\ websocket # 0 /\ conn[websocket] = "open"
    /\ heartbeat_timer_handle = websocket
    /\ heartbeat_timer_handle \in timers

\* C9: a malformed message tears the connection down and is then treated like
\* a transport error: backoff and reconnect, the task does not end and
\* on_client_stopped is not invoked.
C9_MalformedReconnects ==
    [][\A t \in TaskIds :
         /\ (ev'.op = "recv" /\ ev'.t = t /\ pc[t] = "receiving"
                /\ ev'.frame.type = "TEXT" /\ ev'.frame.json = "bad")
              => (pc'[t] = "closing" /\ exit_exc'[t] = "malformed")
         /\ (pc[t] = "closing" /\ exit_exc[t] = "malformed" /\ ~must_cancel[t]
                /\ pc'[t] # "closing")
              => (pc'[t] = "sleeping" /\ ev'.stops = <<>>)]_vars

\* C10: at most one connection is open at any moment, at most one background
\* task exists, and an open connection belongs to that task.
C10_OneConnectionOneTask ==
    /\ Cardinality({c \in ConnIds : conn[c] # "free"}) <= 1
    /\ Cardinality(LiveTasks) <= 1
    /\ \A c \in ConnIds :
         conn[c] # "free" => \E t \in LiveTasks : tws[t] = c /\ websocket = c

\* Task identity 2 is only ever given to a task that on_client_stopped started
\* while its predecessor was ending: such a restarted task holds a connection.
C10_Witness ==
    /\ pc[2] = "receiving"
    /\ conn[tws[2]] = "open"
    /\ pc[1] = "none"

\* Task t is between ws_connect() and the end of the finally clause.
InCycle(t) == pc[t] \in {"connecting", "joining", "receiving", "closing"}

\* C11: every exit from the connect/join/receive phase runs the teardown:
\* after it the connection reference is None and no heartbeat timer is
\* pending; so during the backoff sleep and while no task exists both are None.
C11_TeardownOnEveryExit ==
    /\ [][\A t \in TaskIds :
            (InCycle(t) /\ ~InCycle(t)')
                => /\ websocket' = 0
                   /\ heartbeat_timer_handle' = 0
                   /\ timers' = {}]_vars
    /\ [](((\E t \in TaskIds : pc[t] = "sleeping") \/ LiveTasks = {})
            => /\ websocket = 0
               /\ heartbeat_timer_handle = 0
               /\ timers = {})

\* The backoff sleep after a connection that was joined (its timer scheduled)
\* and yielded a message: nothing of it is left.
C11_Witness ==
    \E t \in TaskIds :
        /\ pc[t] = "sleeping" /\ reset_from[t] # -1
        /\ websocket = 0 /\ heartbeat_timer_handle = 0 /\ timers = {}

\* C12: a failed ws_connect() (I/O error, timeout) and a failed join-room
\* send both lead to teardown, retry_count + 1 and the backoff sleep, and
\* never end the task.
C12_ConnectJoinFailureRecovers ==
    [][\A t \in TaskIds :
         /\ ConnectFail(t, "conn")
              => /\ pc'[t] = "sleeping"
                 /\ retry_count'[t] = retry_count[t] + 1
                 /\ websocket' = 0
         /\ (ev'.op = "join_failed" /\ ev'.t = t) => pc'[t] = "closing"
         /\ (pc[t] = "closing" /\ exit_exc[t] \in {"conn", "other"}
                /\ ~must_cancel[t] /\ pc'[t] # "closing")
              => /\ pc'[t] = "sleeping"
                 /\ retry_count'[t] = retry_count[t] + 1
                 /\ websocket' = 0 /\ heartbeat_timer_handle' = 0
                 /\ ev'.stops = <<>>]_vars

\* The client-side variables a heartbeat send must leave alone.
lifecycleVars == <<network_future, websocket, conn, pc, must_cancel, retry_count,
                   sleep_for, tws, exit_exc, exited>>

\* C13: a timer firing that finds the connection open schedules the next
\* timer and creates one heartbeat send; a failed send changes neither the
\* task, retry_count nor the timer; a firing that finds the connection None
\* or closed sends nothing and schedules nothing.
C13_HeartbeatFiring ==
    [][/\ ev'.op \in {"timer_fired", "timer_lapsed"}
            => /\ ev'.op = "timer_fired"
                    <=> (websocket # 0 /\ conn[websocket] = "open")
               /\ UNCHANGED lifecycleVars
       /\ ev'.op = "timer_fired"
            => /\ hb_sends' = hb_sends + 1
               /\ heartbeat_timer_handle' # 0
               /\ timers' = {heartbeat_timer_handle'}
       /\ ev'.op = "timer_lapsed"
            => /\ hb_sends' = hb_sends
               /\ heartbeat_timer_handle' = 0
               /\ timers' = {}
       /\ ev'.op \in {"hb_sent", "hb_failed", "hb_refused"}
            => /\ hb_sends' = hb_sends - 1
               /\ UNCHANGED lifecycleVars
               /\ UNCHANGED <<timers, heartbeat_timer_handle>>]_vars

\* A heartbeat send has failed on the open connection; the task is still
\* receiving and the next timer is pending.
C13_Witness ==
    /\ ev.op = "hb_failed"
    /\ websocket # 0 /\ conn[websocket] = "open"
    /\ pc[network_future] = "receiving"
    /\ timers = {heartbeat_timer_handle}
    /\ heartbeat_timer_handle # 0

\* C14: stop_and_close() on a running client stops the task, waits until it
\* has ended and then closes the session it owns: the call returns (it does
\* not raise), on return the client is not running and an owned session is
\* closed, and no background task is alive when the call closes the session.
C14_StopAndCloseAfterTaskEnded ==
    [][/\ ev'.op \notin {"stop_and_close_raise", "stop_and_close_cancelled"}
       /\ ev'.op = "stop_and_close_returned"
            => /\ ~is_running(network_future')
               /\ LiveTasks' = {}
               /\ session_closed' = own_session]_vars

\* C15: a session supplied by the caller is never closed by the client,
\* close() closes the session exactly when the client created it, nothing
\* but close() (alone or at the end of stop_and_close()) closes it, and
\* _own_session never changes.
C15_OnlyOwnSessionClosed ==
    /\ [](~own_session => ~session_closed)
    /\ [][/\ own_session' = own_session
          /\ ev'.op = "close" => session_closed' = own_session
          /\ session_closed' # session_closed
               => ev'.op \in {"close", "stop_and_close_returned"}]_vars

\* close() has returned on a client built on the caller's session, and
\* stop_and_close() before it: the session is still open.
C15_Witness ==
    /\ ~own_session
    /\ ev.op = "close"
    /\ ~session_closed
    /\ network_future # 0

\* A decoded message whose cmd is not a key of _CMD_CALLBACK_DICT.
UnknownCmdFrame(f) ==
    f.type = "TEXT" /\ f.json = "ok" /\ f.cmd # NoCmd /\ f.cmd \notin CMD_CALLBACK_DICT

\* C16: for a command code outside the dispatch table, BaseHandler.handle logs
\* the warning on the first message with that code and on no later one,
\* whichever handler instance or connection receives it (the record of logged
\* codes only grows); the message invokes no handler method, raises nothing
\* and leaves the task receiving.
C16_UnknownCmdLoggedOnce ==
    [][/\ logged_unknown_cmds \subseteq logged_unknown_cmds'
       /\ ev'.warned => (ev'.op = "recv" /\ UnknownCmdFrame(ev'.frame))
       /\ \A t \in TaskIds :
            (ev'.op = "recv" /\ ev'.t = t /\ pc[t] = "receiving"
                /\ handler # "none" /\ UnknownCmdFrame(ev'.frame))
                => /\ ev'.warned <=> ev'.frame.cmd \notin logged_unknown_cmds
                   /\ ev'.frame.cmd \in logged_unknown_cmds'
                   /\ ev'.cb = NoCmd /\ ~ev'.raised
                   /\ pc'[t] = "receiving"]_vars

\* A second message with an unknown code, on the connection of a restarted
\* task, after another unknown code was seen too: no warning this time.
C16_Witness ==
    /\ ev.op = "recv" /\ ev.frame.cmd = UNKNOWN_CMD /\ ~ev.warned
    /\ ev.t = 2
    /\ handler # "none"
    /\ logged_unknown_cmds = {JOIN_ROOM, UNKNOWN_CMD}

\* C17: a message that is not TEXT is dropped: no handler method is invoked,
\* the task keeps receiving on the same connection and retry_count keeps its
\* value.
C17_NonTextKeepsRetryCount ==
    [][\A t \in TaskIds :
         (ev'.op = "recv" /\ ev'.t = t /\ pc[t] = "receiving"
             /\ ev'.frame.type # "TEXT")
             => /\ ev'.cb = NoCmd
                /\ pc'[t] = "receiving"
                /\ UNCHANGED <<websocket, conn, heartbeat_timer_handle, timers>>
                /\ retry_count'[t] = retry_count[t]]_vars

\* The decimal number a sequence of digit characters denotes.
RECURSIVE DecimalValue(_)
DecimalValue(cs) ==
    IF cs = <<>> THEN 0
    ELSE 10 * DecimalValue(SubSeq(cs, 1, Len(cs) - 1))
         + (CHOOSE d \in 0..9 : DigitChars[d + 1] = cs[Len(cs)])

\* C18: str() of a RoomKey of type AUTH_CODE is '***' followed by the last
\* three characters of the value (all of it when it has fewer) and nothing
\* else; of type ROOM_ID it is the value in full; "abcdef123" gives ***123 and
\* 92384 gives "92384".
C18_RoomKeyMasked ==
    rendered.done =>
        LET r == rendered.text
            v == room_key.value
            shown == IF Len(v.s) < 3 THEN Len(v.s) ELSE 3
        IN /\ (room_key.type = AUTH_CODE /\ ~v.int)
                => /\ Len(r) = 3 + shown
                   /\ \A i \in 1..3 : r[i] = "*"
                   /\ \A j \in 1..shown : r[3 + j] = v.s[Len(v.s) - shown + j]
           /\ (room_key.type = AUTH_CODE /\ v.int)
                => /\ Len(r) \in 4..6
                   /\ \A i \in 1..3 : r[i] = "*"
                   /\ DecimalValue(SubSeq(r, 4, Len(r))) = v.n % 1000
                   /\ Len(r) < 6 => v.n < 100
           /\ (room_key.type = ROOM_ID /\ ~v.int) => r = v.s
           /\ (room_key.type = ROOM_ID /\ v.int)
                => /\ DecimalValue(r) = v.n
                   /\ Len(r) > 1 => r[1] # "0"
           /\ room_key = [type |-> AUTH_CODE,
                          value |-> StrValue(<<"a", "b", "c", "d", "e", "f", "1", "2", "3">>)]
                => r = <<"*", "*", "*", "1", "2", "3">>
           /\ room_key = [type |-> ROOM_ID, value |-> IntValue(92384)]
                => r = <<"9", "2", "3", "8", "4">>

\* The auth code "abcdef123" has been rendered as ***123.
C18_Witness ==
    /\ rendered.done
    /\ room_key.type = AUTH_CODE
    /\ room_key.value = StrValue(<<"a", "b", "c", "d", "e", "f", "1", "2", "3">>)
    /\ rendered.text = <<"*", "*", "*", "1", "2", "3">>

\* C19: once stop() was called on a running client, wherever the task is, the
\* task ends through _network_coroutine_wrapper (is_running false at that
\* moment), on_client_stopped of an installed handler gets no error, and a
\* caller suspended in join() resumes normally.
C19_StopTerminates ==
    /\ (\E t \in TaskIds : must_cancel[t])
          ~> (~is_running(network_future) \/ ev.op = "exit")
    /\ (waiter.st = "pending" /\ must_cancel[waiter.on])
          ~> (ev.op \in {"join_returned", "stop_and_close_returned"})
    /\ [][\A t \in TaskIds :
            (TaskEnds(t) /\ must_cancel[t] /\ handler # "none")
                => ev'.stops = <<"none">>]_vars

\* C20: when on_client_stopped is invoked, _network_future is already None,
\* as are the connection and the timer: under a handler that does nothing the
\* client is left not running, and the start() that LiveMsgHandler calls from
\* inside on_client_stopped is accepted and creates a new task, which begins
\* with retry_count 0.
C20_RestartFromOnStopped ==
    /\ [][ev'.stops # <<>>
            => /\ websocket' = 0 /\ heartbeat_timer_handle' = 0 /\ timers' = {}
               /\ handler = "base" => network_future' = 0
               /\ (handler = "live" /\ ev'.stops # <<"fatal">>)
                    => /\ network_future' # 0
                       /\ network_future' # ev'.t
                       /\ pc'[network_future'] = "created"
                       /\ retry_count'[network_future'] = 0]_vars
    /\ [][\A t \in TaskIds :
            (pc[t] = "created" /\ pc'[t] = "connecting") => retry_count'[t] = 0]_vars

\* LiveMsgHandler.on_client_stopped has restarted the client after a stop():
\* the new task exists and nothing of the old connection is left.
C20_Witness ==
    /\ ev.op = "exit" /\ ev.stops = <<"none">>
    /\ handler = "live"
    /\ network_future # 0
    /\ pc[network_future] = "created"
    /\ retry_count[network_future] = 0
    /\ websocket = 0 /\ timers = {}

\* C21: at most one heartbeat timer is pending; it is the one the handle
\* names, scheduled under the connection now held, whose task has sent
\* join-room (it receives, or is closing that connection); a timer fires a
\* send only under the connection it was scheduled for; a _send_heartbeat()
\* task never waits while a later connection is being made; and a heartbeat
\* is written only to a connection that is set and not closed.
C21_OneTimerForHeldConnection ==
    /\ [](/\ Cardinality(timers) <= 1
          /\ timers # {}
               => /\ websocket # 0
                  /\ timers = {websocket}
                  /\ heartbeat_timer_handle = websocket
                  /\ \E t \in LiveTasks :
                       tws[t] = websocket /\ pc[t] \in {"receiving", "closing"}
          /\ hb_sends > 0
               => \A t \in TaskIds : pc[t] \notin {"connecting", "joining"})
    /\ [][/\ ev'.op = "timer_fired"
               => (timers = {websocket} /\ conn[websocket] = "open")
          /\ ev'.op \in {"hb_sent", "hb_failed"}
               => (websocket # 0 /\ conn[websocket] = "open"
                   /\ ev'.t = websocket)]_vars

\* A heartbeat was written on a connection made after a failed cycle, and
\* that connection's next timer is pending.
C21_Witness ==
    /\ ev.op = "hb_sent"
    /\ websocket # 0 /\ conn[websocket] = "open"
    /\ timers = {websocket}
    /\ network_future # 0
    /\ pc[network_future] = "receiving"
    /\ retry_count[network_future] >= 1

\* C22: with LiveMsgHandler installed, a background task that ends with
\* anything but the fatal error (a stop(), any other exception) is followed,
\* within on_client_stopped, by a new task, so the client is running again;
\* one that ends with the fatal error is not restarted, the process exits.
C22_LiveHandlerRestarts ==
    [][\A t \in TaskIds :
         (TaskEnds(t) /\ handler = "live")
             => IF EndsWith(t) = "fatal"
                THEN exited' /\ network_future' = 0 /\ LiveTasks' = {}
                ELSE /\ ~exited'
                     /\ network_future' # 0
                     /\ pc'[network_future'] = "created"
                     /\ ev'.stops = <<EndsWith(t)>>]_vars

====
